---- MODULE Spec2Model ----
(***************************************************************************)
(* Model of the Brainfuck virtual machine of src/lib/vm/bf_vm.c:           *)
(* build_jump_table (the bracket pre-scan) and bfvm_run (argument          *)
(* validation, tape allocation, the dispatch loop with run-length folding  *)
(* and the clear-cell shortcut, the debug hook, the normal exit and the    *)
(* centralized cleanup).                                                   *)
(*                                                                         *)
(* Positions (ip, dp, input_ptr, output_ptr, jump table indices) are       *)
(* 0-based as in the C code; the program text is a TLA+ sequence of        *)
(* one-character strings, read through CodeAt.                             *)
(***************************************************************************)
EXTENDS Integers, Sequences, FiniteSets, TLC

(* ------------------------------------------------------------------ *)
(* Error codes (bf_vm.c lines 10-21) and the nesting limit (line 23).  *)
(* ------------------------------------------------------------------ *)
BF_SUCCESS == 0
BF_ERR_MEMORY_OUT_OF_BOUNDS == -1
BF_ERR_INPUT_EOF == -2
BF_ERR_OUTPUT_OVERFLOW == -3
BF_ERR_UNMATCHED_BRACKET_CLOSE == -4
BF_ERR_UNMATCHED_BRACKET_OPEN == -5
BF_ERR_TAPE_ALLOC_FAILED == -6
BF_ERR_JUMPTABLE_ALLOC_FAILED == -7
BF_ERR_STACK_OVERFLOW == -8
BF_ERR_DEBUG_HALT_REQUESTED == -9
BF_ERR_INVALID_ARGS == -10
BF_ERR_BREAKPOINT_ALLOC_FAILED == -11
MAX_BRACKET_DEPTH == 4096

(* The error codes of lines 11-21. *)
ErrorCodes ==
  {BF_ERR_MEMORY_OUT_OF_BOUNDS, BF_ERR_INPUT_EOF, BF_ERR_OUTPUT_OVERFLOW,
   BF_ERR_UNMATCHED_BRACKET_CLOSE, BF_ERR_UNMATCHED_BRACKET_OPEN,
   BF_ERR_TAPE_ALLOC_FAILED, BF_ERR_JUMPTABLE_ALLOC_FAILED,
   BF_ERR_STACK_OVERFLOW, BF_ERR_DEBUG_HALT_REQUESTED, BF_ERR_INVALID_ARGS,
   BF_ERR_BREAKPOINT_ALLOC_FAILED}

(* uint8_t arithmetic: values wrap modulo 2^8. *)
Byte == 256

(* ------------------------------------------------------------------ *)
(* Bounds of the model.                                                *)
(* ------------------------------------------------------------------ *)
MaxLen == 2
MaxTape == 2
MaxOut == 1
MaxIn == 1

(* ------------------------------------------------------------------ *)
(* Inputs of a run.                                                    *)
(* ------------------------------------------------------------------ *)
Alphabet == {">", "<", "+", "-", ".", ",", "[", "]", "x"}

InputBytes == {65, 255}

(* Every program text of at most MaxLen characters. *)
ShortPrograms == UNION {[1..n -> Alphabet] : n \in 0..MaxLen}

(* Longer program texts that exercise loops, the clear-cell shortcut,  *)
(* folding against the tape bounds and malformed bracket structure.    *)
NamedPrograms ==
  { <<"+", "[", "-", "]", ".">>,
    <<"+", "+", "[", "+", "]", ".">>,
    <<"[", "-", "]">>,
    <<",", "[", "-", "]", ".">>,
    <<",", "[", "+", "]", "+", ".">>,
    <<"+", "[", "-", "-", "]">>,
    <<"+", "[", "]">>,
    <<"+", "+", "+", "-", "-">>,
    <<">", ">", ">">>,
    <<">", "<", "<">>,
    <<">", "+", "<", "<", ".">>,
    <<"+", "+", "[", ">", "+", "+", "<", "-", "]", ">", ".">>,
    <<"+", "[", "[", "-", "]", "]">>,
    <<"+", "[", "-", "[", "x", "]", "]", ".">>,
    <<"[", "[", "]", "]", "[", "]">>,
    <<"[", "[", "]">>,
    <<"[", "]", "]", "+">>,
    <<"+", ".", "]", "[">>,
    <<",", ".", ",", ".">>,
    <<"+", "+", "+", "+", "+", "+", "+", "+",
      "[", ">", "+", "+", "+", "+", "+", "+", "+", "+", "<", "-", "]",
      ">", ".">> }

Programs == ShortPrograms \cup NamedPrograms

Inputs == UNION {[1..n -> InputBytes] : n \in 0..MaxIn}

(* Content of an output-buffer byte the engine has not written: the   *)
(* caller's byte, marked by a value that no byte the engine writes     *)
(* can have.                                                           *)
Untouched == Byte

VARIABLES
  args,           \* the arguments of bfvm_run (never changed)
  vm,             \* the BrainfuckVM structure
  output_buffer,  \* the bytes of the caller's output buffer
  result_code,    \* local of bfvm_run
  debug_halt,     \* local of bfvm_run
  heap,           \* allocation state of the blocks the run owns
  pc,             \* position of the run in bfvm_run / build_jump_table
  hook_calls,     \* history: hook invocations of the current loop iteration
  effected,       \* history: instructions that took effect in this iteration
  hooked,         \* history: the hook was invoked at least once
  executed,       \* history: an instruction was dispatched
  dispatches,     \* history: passes through the switch, counted up to code_len + 1
  ref             \* the reference engine (one character at a time)

vars == <<args, vm, output_buffer, result_code, debug_halt, heap,
          pc, hook_calls, effected, hooked, executed, dispatches, ref>>

code_len == args.code_len

(* code[k] of the C program text, 0-based. *)
CodeAt(k) == args.code_buf[k + 1]

(* A hook is registered and single-step mode is on. *)
Stepping == args.debug_callback_ptr # 0 /\ args.single_step # 0

(* The test of line 164: vm.debug_hook && vm.single_step_mode. *)
HookDue == args.debug_callback_ptr # 0 /\ args.single_step # 0

(* A variant of the test of line 238 that forgets the single-step flag. *)
HookDueAfterClear_NoFlag == args.debug_callback_ptr # 0

(* The test of line 238: vm.debug_hook && vm.single_step_mode. *)
HookDueAfterClear == args.debug_callback_ptr # 0 /\ args.single_step # 0

(* A variant of the validation that does not test the output buffer. *)
InvalidArgs_NoOutputTest ==
  args.code_null \/ args.requested_mem_size = 0

(* The test of line 122: !code_buf || !out_buf || requested_mem_size == 0. *)
InvalidArgs ==
  args.code_null \/ args.out_null \/ args.requested_mem_size = 0

Blocks == {"tape", "stack", "table"}

(* free(block): a live block becomes freed; anything else is an error. *)
Free(h, b) ==
  [h EXCEPT ![b] = IF h[b] = "live" THEN "freed" ELSE "bad_free"]

RefIdle ==
  [pc |-> "idle", ip |-> 0, dp |-> 0, memory |-> <<>>, input_ptr |-> 0,
   output_ptr |-> 0, output_buffer |-> <<>>, result_code |-> BF_SUCCESS]

ArgsOf(code, code_null, input, in_null, out_null, olen, msize, hook, step) ==
  [code_buf |-> code, code_null |-> code_null, code_len |-> Len(code),
   input_buf |-> input, in_null |-> in_null,
   in_len |-> IF in_null THEN MaxIn ELSE Len(input),
   out_null |-> out_null, out_len_max |-> olen,
   requested_mem_size |-> msize,
   debug_callback_ptr |-> hook, single_step |-> step]

(* The arguments of a run: a null or a bounded program text, a null or *)
(* a bounded input, a null or a bounded output buffer, a tape size,    *)
(* a hook pointer (0 is null) and the single-step flag.                *)
BoundedArgs ==
  \E code_null \in BOOLEAN, out_null \in BOOLEAN, in_null \in BOOLEAN :
  \E code \in (IF code_null THEN {<<>>} ELSE Programs) :
  \E input \in (IF in_null THEN {<<>>} ELSE Inputs) :
  \E olen \in 0..MaxOut, msize \in 0..MaxTape :
  \E hook \in {0, 1}, step \in {0, 1} :
     args = ArgsOf(code, code_null, input, in_null, out_null, olen, msize,
                   hook, step)

(* The state at the entry of bfvm_run, the arguments aside. *)
InitRun ==
  /\ vm = [memory |-> <<>>, memory_set |-> FALSE, memory_size |-> 0,
           dp |-> 0, ip |-> 0, input_ptr |-> 0, output_ptr |-> 0,
           jump_table |-> <<>>, jump_table_set |-> FALSE]
  /\ output_buffer = [k \in 0..(args.out_len_max - 1) |-> Untouched]
  /\ result_code = BF_SUCCESS
  /\ debug_halt = 0
  /\ heap = [b \in Blocks |-> "unallocated"]
  /\ pc = "entry"
  /\ hook_calls = <<>>
  /\ effected = {}
  /\ hooked = FALSE
  /\ executed = FALSE
  /\ dispatches = 0
  /\ ref = RefIdle

Init == BoundedArgs /\ InitRun

(* Program texts at the nesting limit: one pending bracket too many,   *)
(* never closed; MAX_BRACKET_DEPTH pending brackets exactly, all       *)
(* closed; one more, all closed; one more, and an excess `]`.          *)
Opens(n) == [k \in 1..n |-> "["]
Closes(n) == [k \in 1..n |-> "]"]

DeepPrograms ==
  { Opens(MAX_BRACKET_DEPTH + 1),
    Opens(MAX_BRACKET_DEPTH) \o Closes(MAX_BRACKET_DEPTH),
    Opens(MAX_BRACKET_DEPTH + 1) \o Closes(MAX_BRACKET_DEPTH + 1),
    Opens(MAX_BRACKET_DEPTH + 1) \o Closes(MAX_BRACKET_DEPTH + 2) }

DeepArgs ==
  \E code \in DeepPrograms :
     args = ArgsOf(code, FALSE, <<>>, FALSE, FALSE, 1, 1, 0, 0)

InitDeep == (BoundedArgs \/ DeepArgs) /\ InitRun

(* ------------------------------------------------------------------ *)
(* bfvm_run: argument validation and tape allocation.                  *)
(* ------------------------------------------------------------------ *)
ValidateArgs ==
  /\ pc = "entry"
  /\ IF InvalidArgs
       THEN /\ result_code' = BF_ERR_INVALID_ARGS
            /\ pc' = "returned"
       ELSE /\ pc' = "alloc_tape"
            /\ UNCHANGED result_code
  /\ UNCHANGED <<args, vm, output_buffer, debug_halt, heap,
                 hook_calls, effected, hooked, executed, dispatches, ref>>

AllocTape ==
  /\ pc = "alloc_tape"
  /\ \E ok \in BOOLEAN :
       IF ~ok
         THEN /\ result_code' = BF_ERR_TAPE_ALLOC_FAILED
              /\ pc' = "cleanup"
              /\ UNCHANGED <<vm, heap>>
         ELSE /\ vm' = [vm EXCEPT
                          !.memory = [k \in 0..(args.requested_mem_size - 1) |-> 0],
                          !.memory_set = TRUE,
                          !.memory_size = args.requested_mem_size]
              /\ heap' = [heap EXCEPT !["tape"] = "live"]
              /\ pc' = "bjt_entry"
              /\ UNCHANGED result_code
  /\ UNCHANGED <<args, output_buffer, debug_halt,
                 hook_calls, effected, hooked, executed, dispatches, ref>>

(* ------------------------------------------------------------------ *)
(* build_jump_table: the bracket pre-scan (lines 59-103).              *)
(* ------------------------------------------------------------------ *)

(* A variant of the limit test that lets one more bracket in. *)
StackFull_OffByOne(s) == (Len(s.stack) - 1) + 1 > MAX_BRACKET_DEPTH

(* The test of line 74 on the pending stack: stack_ptr + 1 has reached *)
(* the number of slots that were allocated.                            *)
StackFull(s) == (Len(s.stack) - 1) + 1 >= MAX_BRACKET_DEPTH

(* The push of line 80; peak remembers the largest number of entries   *)
(* the stack has held.                                                 *)
Push(s, k) ==
  [s EXCEPT !.stack = Append(@, k),
            !.peak = IF Len(s.stack) + 1 > @ THEN Len(s.stack) + 1 ELSE @]

(* A variant that records only the forward entry of a pair. *)
Record_ForwardOnly(table, open, close) ==
  (open :> close) @@ (close :> close) @@ table

(* The two assignments of lines 89-90. *)
Record(table, open, close) ==
  (close :> open) @@ (open :> close) @@ table

(* A variant of the loop body that reports a `]` on an empty stack     *)
(* with the code of the other bracket error.                           *)
ScanBody_WrongCode(s, k) ==
  IF s.ret # BF_SUCCESS THEN s
  ELSE IF CodeAt(k) = "["
    THEN IF StackFull(s)
           THEN [s EXCEPT !.ret = BF_ERR_STACK_OVERFLOW]
           ELSE Push(s, k)
    ELSE IF CodeAt(k) = "]"
      THEN IF Len(s.stack) - 1 < 0
             THEN [s EXCEPT !.ret = BF_ERR_UNMATCHED_BRACKET_OPEN]
             ELSE LET open_bracket_pos == s.stack[Len(s.stack)]
                  IN  [s EXCEPT !.stack = SubSeq(@, 1, Len(@) - 1),
                                !.table = Record(@, open_bracket_pos, k)]
      ELSE s

(* The locals of the scan: the pending open brackets (bottom first,    *)
(* stack_ptr = Len(stack) - 1), the jump table written so far (its     *)
(* other entries are unwritten), and the return value once the loop    *)
(* has returned (BF_SUCCESS while it is still running); peak is the    *)
(* largest number of entries the stack has held.                       *)
ScanStart == [stack |-> <<>>, table |-> <<>>, ret |-> BF_SUCCESS, peak |-> 0]

(* The body of the scan loop for position k (lines 73-91). *)
ScanBody(s, k) ==
  IF s.ret # BF_SUCCESS THEN s
  ELSE IF CodeAt(k) = "["
    THEN IF StackFull(s)
           THEN [s EXCEPT !.ret = BF_ERR_STACK_OVERFLOW]
           ELSE Push(s, k)
    ELSE IF CodeAt(k) = "]"
      THEN IF Len(s.stack) - 1 < 0
             THEN [s EXCEPT !.ret = BF_ERR_UNMATCHED_BRACKET_CLOSE]
             ELSE LET open_bracket_pos == s.stack[Len(s.stack)]
                  IN  [s EXCEPT !.stack = SubSeq(@, 1, Len(@) - 1),
                                !.table = Record(@, open_bracket_pos, k)]
      ELSE s

(* The scan loop of line 72 over the positions a..b, in order, up to   *)
(* the first return; the range is split in halves only to bound the    *)
(* depth of evaluation.                                                *)
RECURSIVE ScanRange(_, _, _)
ScanRange(s, a, b) ==
  IF a > b THEN s
  ELSE IF a = b THEN ScanBody(s, a)
  ELSE LET m == (a + b) \div 2
           l == ScanRange(s, a, m)
       IN  IF l.ret # BF_SUCCESS THEN l ELSE ScanRange(l, m + 1, b)

(* A variant that does not look at the brackets left on the stack. *)
ScanResult_IgnoresLeftover(s) == s.ret

(* The value build_jump_table returns after the loop (lines 94-102). *)
ScanResult(s) ==
  IF s.ret # BF_SUCCESS THEN s.ret
  ELSE IF Len(s.stack) - 1 # -1 THEN BF_ERR_UNMATCHED_BRACKET_OPEN
  ELSE BF_SUCCESS

(* A variant of the error paths that leaves vm->jump_table pointing at *)
(* the freed table.                                                    *)
TableSetAfterError_Dangling == TRUE

(* vm->jump_table after an error path of the scan: lines 77, 85 and 98 *)
(* set it to NULL after freeing the table.                             *)
TableSetAfterError == FALSE

(* The call of build_jump_table and the test of its result in bfvm_run *)
(* (lines 155-158). Either malloc may fail. On every error path the    *)
(* stack and the table are freed and vm->jump_table is set to NULL.    *)
BuildJumpTable ==
  /\ pc = "bjt_entry"
  /\ \E stack_ok \in BOOLEAN, table_ok \in BOOLEAN :
       IF ~stack_ok
         THEN /\ result_code' = BF_ERR_JUMPTABLE_ALLOC_FAILED
              /\ pc' = "cleanup"
              /\ UNCHANGED <<vm, heap>>
         ELSE IF ~table_ok
           THEN /\ heap' = Free([heap EXCEPT !["stack"] = "live"], "stack")
                /\ result_code' = BF_ERR_JUMPTABLE_ALLOC_FAILED
                /\ pc' = "cleanup"
                /\ UNCHANGED vm
           ELSE LET s == ScanRange(ScanStart, 0, code_len - 1)
                    h == [heap EXCEPT !["stack"] = "live", !["table"] = "live"]
                IN  /\ result_code' = ScanResult(s)
                    /\ IF ScanResult(s) # BF_SUCCESS
                         THEN /\ heap' = Free(Free(h, "stack"), "table")
                              /\ vm' = [vm EXCEPT !.jump_table = <<>>,
                                                  !.jump_table_set = TableSetAfterError]
                              /\ pc' = "cleanup"
                         ELSE /\ heap' = Free(h, "stack")
                              /\ vm' = [vm EXCEPT !.jump_table = s.table,
                                                  !.jump_table_set = TRUE]
                              /\ pc' = "loop"
  /\ UNCHANGED <<args, output_buffer, debug_halt,
                 hook_calls, effected, hooked, executed, dispatches, ref>>

(* ------------------------------------------------------------------ *)
(* bfvm_run: the execution loop (lines 161-253).                       *)
(* ------------------------------------------------------------------ *)

(* What the debug hook may return: 0 to continue, nonzero to halt. *)
HookReturns == {0, 1}

(* The snapshot handed to the hook: (ip, dp, memory[dp]). *)
Snapshot(v) == <<v.ip, v.dp, v.memory[v.dp]>>

(* A folding loop that advances over the run without counting it. *)
RECURSIVE Fold_Miscount(_, _, _)
Fold_Miscount(p, count, command) ==
  IF p + 1 < code_len /\ CodeAt(p + 1) = command
    THEN Fold_Miscount(p + 1, count, command)
    ELSE [ip |-> p, count |-> count]

(* The folding loop of lines 183-186 and 202-205: from position p with  *)
(* `count` characters counted so far, the final ip and count.          *)
RECURSIVE Fold(_, _, _)
Fold(p, count, command) ==
  IF p + 1 < code_len /\ CodeAt(p + 1) = command
    THEN Fold(p + 1, count + 1, command)
    ELSE [ip |-> p, count |-> count]

(* The hook call at the top of an iteration (lines 164-171). *)
HookPre ==
  /\ pc = "loop"
  /\ vm.ip < code_len
  /\ HookDue
  /\ \E ret \in HookReturns :
       /\ debug_halt' = ret
       /\ IF ret # 0
            THEN /\ result_code' = BF_ERR_DEBUG_HALT_REQUESTED
                 /\ pc' = "cleanup"
            ELSE /\ pc' = "dispatch"
                 /\ UNCHANGED result_code
  /\ hook_calls' = <<Snapshot(vm)>>
  /\ effected' = {}
  /\ hooked' = TRUE
  /\ UNCHANGED <<args, vm, output_buffer, heap, executed, dispatches, ref>>

(* One more pass through the switch of line 179; the count stops at   *)
(* code_len + 1, which is more than any bound stated on it.            *)
CountDispatch(n) == IF n <= code_len THEN n + 1 ELSE n

(* The switch is reached: directly from the loop test when no hook is  *)
(* to be called, or after the hook returned 0.                         *)
AtDispatch ==
  \/ pc = "loop" /\ vm.ip < code_len /\ ~HookDue
  \/ pc = "dispatch"

command == CodeAt(vm.ip)

(* A variant of the bound tests that lets dp reach memory_size. *)
MoveOutOfBounds_OffByOne(cmd, dp, count) ==
  IF cmd = ">" THEN dp + count > vm.memory_size ELSE dp < count

(* The bound tests of lines 188 and 193. *)
MoveOutOfBounds(cmd, dp, count) ==
  IF cmd = ">" THEN dp + count >= vm.memory_size ELSE dp < count

(* A variant that moves dp as far as the tape allows before it         *)
(* refuses a run.                                                      *)
MoveFold_PartialMove ==
  /\ AtDispatch
  /\ command \in {">", "<"}
  /\ LET f == Fold(vm.ip, 1, command)
         oob == MoveOutOfBounds(command, vm.dp, f.count)
         ndp == IF command = ">" THEN vm.dp + f.count ELSE vm.dp - f.count
     IN  IF oob
           THEN /\ vm' = [vm EXCEPT !.ip = f.ip,
                                   !.dp = IF command = ">"
                                            THEN vm.memory_size - 1 ELSE 0]
                /\ result_code' = BF_ERR_MEMORY_OUT_OF_BOUNDS
                /\ pc' = "cleanup"
                /\ effected' = {}
           ELSE /\ vm' = [vm EXCEPT !.ip = f.ip + 1, !.dp = ndp]
                /\ pc' = "loop"
                /\ effected' =
                     {<<vm.ip + k,
                        IF command = ">" THEN vm.dp + k ELSE vm.dp - k,
                        vm.memory[IF command = ">" THEN vm.dp + k
                                                   ELSE vm.dp - k]>> :
                        k \in 0..(f.count - 1)}
                /\ UNCHANGED result_code
  /\ executed' = TRUE
  /\ dispatches' = CountDispatch(dispatches)
  /\ UNCHANGED <<args, output_buffer, debug_halt, heap,
                 hook_calls, hooked, ref>>

(* case '>': case '<': (lines 180-198) *)
MoveFold ==
  /\ AtDispatch
  /\ command \in {">", "<"}
  /\ LET f == Fold(vm.ip, 1, command)
         oob == MoveOutOfBounds(command, vm.dp, f.count)
         ndp == IF command = ">" THEN vm.dp + f.count ELSE vm.dp - f.count
     IN  IF oob
           THEN /\ vm' = [vm EXCEPT !.ip = f.ip]
                /\ result_code' = BF_ERR_MEMORY_OUT_OF_BOUNDS
                /\ pc' = "cleanup"
                /\ effected' = {}
           ELSE /\ vm' = [vm EXCEPT !.ip = f.ip + 1, !.dp = ndp]
                /\ pc' = "loop"
                /\ effected' =
                     {<<vm.ip + k,
                        IF command = ">" THEN vm.dp + k ELSE vm.dp - k,
                        vm.memory[IF command = ">" THEN vm.dp + k
                                                   ELSE vm.dp - k]>> :
                        k \in 0..(f.count - 1)}
                /\ UNCHANGED result_code
  /\ executed' = TRUE
  /\ dispatches' = CountDispatch(dispatches)
  /\ UNCHANGED <<args, output_buffer, debug_halt, heap,
                 hook_calls, hooked, ref>>

(* A variant of the cell update that forgets the folded count. *)
CellAfter_IgnoresCount(cmd, cell, n) ==
  IF cmd = "+" THEN (cell + 1) % Byte ELSE (cell - 1) % Byte

(* The cell after `memory[dp] += count` or `-= count` on a uint8_t     *)
(* (lines 207 and 209).                                                *)
CellAfter(cmd, cell, n) ==
  IF cmd = "+" THEN (cell + n) % Byte ELSE (cell - n) % Byte

(* case '+': case '-': (lines 199-211) *)
AddFold ==
  /\ AtDispatch
  /\ command \in {"+", "-"}
  /\ LET f == Fold(vm.ip, 1, command)
         cell == vm.memory[vm.dp]
         After(n) == CellAfter(command, cell, n)
     IN  /\ vm' = [vm EXCEPT !.ip = f.ip + 1,
                             !.memory[vm.dp] = After(f.count)]
         /\ effected' = {<<vm.ip + k, vm.dp, After(k)>> :
                            k \in 0..(f.count - 1)}
  /\ pc' = "loop"
  /\ executed' = TRUE
  /\ dispatches' = CountDispatch(dispatches)
  /\ UNCHANGED <<args, output_buffer, result_code, debug_halt, heap, hook_calls, hooked, ref>>

(* A variant of the capacity test that lets one more byte in. *)
OutputFull_OffByOne == vm.output_ptr > args.out_len_max

(* The test of line 213: output_ptr >= output_max_len. *)
OutputFull == vm.output_ptr >= args.out_len_max

(* case '.': (lines 212-217) *)
Output ==
  /\ AtDispatch
  /\ command = "."
  /\ IF OutputFull
       THEN /\ result_code' = BF_ERR_OUTPUT_OVERFLOW
            /\ pc' = "cleanup"
            /\ effected' = {}
            /\ UNCHANGED <<vm, output_buffer>>
       ELSE /\ output_buffer' =
                 [output_buffer EXCEPT ![vm.output_ptr] = vm.memory[vm.dp]]
            /\ vm' = [vm EXCEPT !.output_ptr = @ + 1, !.ip = @ + 1]
            /\ pc' = "loop"
            /\ effected' = {Snapshot(vm)}
            /\ UNCHANGED result_code
  /\ executed' = TRUE
  /\ dispatches' = CountDispatch(dispatches)
  /\ UNCHANGED <<args, debug_halt, heap, hook_calls, hooked, ref>>

(* The test of line 219: input_buffer && input_ptr < input_len. *)
InputAvailable == ~args.in_null /\ vm.input_ptr < args.in_len

(* A variant that leaves the cell as it is at the end of the input. *)
InputByte_KeepsCell ==
  IF InputAvailable THEN args.input_buf[vm.input_ptr + 1]
                    ELSE vm.memory[vm.dp]

(* The byte `,` stores in the cell (lines 220 and 222): the next input *)
(* byte, or 0 at the end of the input.                                 *)
InputByte ==
  IF InputAvailable THEN args.input_buf[vm.input_ptr + 1] ELSE 0

(* case ',': (lines 218-224) *)
Input ==
  /\ AtDispatch
  /\ command = ","
  /\ IF InputAvailable
       THEN vm' = [vm EXCEPT !.memory[vm.dp] = InputByte,
                             !.input_ptr = @ + 1,
                             !.ip = @ + 1]
       ELSE vm' = [vm EXCEPT !.memory[vm.dp] = InputByte, !.ip = @ + 1]
  /\ pc' = "loop"
  /\ effected' = {Snapshot(vm)}
  /\ executed' = TRUE
  /\ dispatches' = CountDispatch(dispatches)
  /\ UNCHANGED <<args, output_buffer, result_code, debug_halt, heap, hook_calls, hooked, ref>>

(* The values a read of jump_table[p] can yield: the entry written by  *)
(* build_jump_table, or any position if the entry was never written    *)
(* (the table is not initialized, line 70).                            *)
JumpTargets(p) ==
  IF p \in DOMAIN vm.jump_table THEN {vm.jump_table[p]} ELSE 0..code_len

(* A variant that leaves ip on the bracket the table names. *)
JumpLanding_OnBracket(target) == target

(* Where the next iteration starts after `ip = jump_table[ip]` (lines  *)
(* 228 and 247) and the ip++ of line 252.                              *)
JumpLanding(target) == target + 1

(* A variant of the test of `[` that never skips the loop. *)
OpenSkips_Never(cell) == FALSE

(* The test of line 226: the cell is zero, the loop is skipped. *)
OpenSkips(cell) == cell = 0

(* A variant of the test of `]` that never jumps back. *)
CloseRepeats_Never(cell) == FALSE

(* The test of line 245: the cell is nonzero, the loop repeats. *)
CloseRepeats(cell) == cell # 0

(* A variant of the idiom test that knows only `[-]`. *)
IsClearIdiom_MinusOnly(p) ==
  /\ p + 2 < code_len
  /\ CodeAt(p + 1) = "-"
  /\ CodeAt(p + 2) = "]"

(* The test of lines 231-233 for the clear-cell idiom at position p. *)
IsClearIdiom(p) ==
  /\ p + 2 < code_len
  /\ (CodeAt(p + 1) = "-" \/ CodeAt(p + 1) = "+")
  /\ CodeAt(p + 2) = "]"

(* case '[': (lines 225-243), up to the hook call of line 239 when     *)
(* the shortcut fires while stepping.                                  *)
LoopOpen ==
  /\ AtDispatch
  /\ command = "["
  /\ IF OpenSkips(vm.memory[vm.dp])
       THEN /\ \E target \in JumpTargets(vm.ip) :
                 vm' = [vm EXCEPT !.ip = JumpLanding(target)]
            /\ pc' = "loop"
            /\ effected' = {Snapshot(vm)}
       ELSE IF IsClearIdiom(vm.ip)
         THEN /\ effected' = {Snapshot(vm), <<vm.ip + 1, vm.dp, vm.memory[vm.dp]>>}
              /\ IF HookDueAfterClear
                   THEN /\ vm' = [vm EXCEPT !.memory[vm.dp] = 0, !.ip = @ + 2]
                        /\ pc' = "hook_post"
                   ELSE /\ vm' = [vm EXCEPT !.memory[vm.dp] = 0, !.ip = @ + 3]
                        /\ pc' = "loop"
         ELSE /\ vm' = [vm EXCEPT !.ip = @ + 1]
              /\ pc' = "loop"
              /\ effected' = {Snapshot(vm)}
  /\ executed' = TRUE
  /\ dispatches' = CountDispatch(dispatches)
  /\ UNCHANGED <<args, output_buffer, result_code, debug_halt, heap, hook_calls, hooked, ref>>

(* A variant of the second hook call that does not test what the hook *)
(* returned.                                                           *)
HookPost_IgnoresHalt ==
  /\ pc = "hook_post"
  /\ \E ret \in HookReturns :
       /\ debug_halt' = ret
       /\ vm' = [vm EXCEPT !.ip = @ + 1]
       /\ pc' = "loop"
       /\ UNCHANGED result_code
  /\ hook_calls' = Append(hook_calls, Snapshot(vm))
  /\ hooked' = TRUE
  /\ UNCHANGED <<args, output_buffer, heap, effected, executed, dispatches, ref>>

(* The hook call after the clear-cell shortcut (lines 238-241) and the *)
(* ip++ of line 252.                                                   *)
HookPost ==
  /\ pc = "hook_post"
  /\ \E ret \in HookReturns :
       /\ debug_halt' = ret
       /\ IF ret # 0
            THEN /\ result_code' = BF_ERR_DEBUG_HALT_REQUESTED
                 /\ pc' = "cleanup"
                 /\ UNCHANGED vm
            ELSE /\ vm' = [vm EXCEPT !.ip = @ + 1]
                 /\ pc' = "loop"
                 /\ UNCHANGED result_code
  /\ hook_calls' = Append(hook_calls, Snapshot(vm))
  /\ hooked' = TRUE
  /\ UNCHANGED <<args, output_buffer, heap, effected, executed, dispatches, ref>>

(* case ']': (lines 244-249) *)
LoopClose ==
  /\ AtDispatch
  /\ command = "]"
  /\ IF CloseRepeats(vm.memory[vm.dp])
       THEN \E target \in JumpTargets(vm.ip) :
              vm' = [vm EXCEPT !.ip = JumpLanding(target)]
       ELSE vm' = [vm EXCEPT !.ip = @ + 1]
  /\ pc' = "loop"
  /\ effected' = {Snapshot(vm)}
  /\ executed' = TRUE
  /\ dispatches' = CountDispatch(dispatches)
  /\ UNCHANGED <<args, output_buffer, result_code, debug_halt, heap, hook_calls, hooked, ref>>

(* A variant of the default case that goes round the loop without the *)
(* ip++ of line 252.                                                   *)
Comment_Stalls ==
  /\ AtDispatch
  /\ command \notin {">", "<", "+", "-", ".", ",", "[", "]"}
  /\ vm' = vm
  /\ pc' = "loop"
  /\ effected' = {}
  /\ executed' = TRUE
  /\ dispatches' = CountDispatch(dispatches)
  /\ UNCHANGED <<args, output_buffer, result_code, debug_halt, heap, hook_calls, hooked, ref>>

(* Any other character is a comment (lines 250-252). *)
Comment ==
  /\ AtDispatch
  /\ command \notin {">", "<", "+", "-", ".", ",", "[", "]"}
  /\ vm' = [vm EXCEPT !.ip = @ + 1]
  /\ pc' = "loop"
  /\ effected' = {}
  /\ executed' = TRUE
  /\ dispatches' = CountDispatch(dispatches)
  /\ UNCHANGED <<args, output_buffer, result_code, debug_halt, heap, hook_calls, hooked, ref>>

(* A variant of the normal exit that counts the terminator in the      *)
(* value it returns.                                                   *)
NormalExit_CountsTerminator ==
  /\ pc = "loop"
  /\ ~(vm.ip < code_len)
  /\ output_buffer' =
       IF vm.output_ptr < args.out_len_max
         THEN [output_buffer EXCEPT ![vm.output_ptr] = 0]
         ELSE output_buffer
  /\ result_code' = IF result_code = BF_SUCCESS THEN vm.output_ptr + 1
                                                ELSE result_code
  /\ pc' = "cleanup"
  /\ UNCHANGED <<args, vm, debug_halt, heap,
                 hook_calls, effected, hooked, executed, dispatches, ref>>

(* Normal exit (lines 255-262). *)
NormalExit ==
  /\ pc = "loop"
  /\ ~(vm.ip < code_len)
  /\ output_buffer' =
       IF vm.output_ptr < args.out_len_max
         THEN [output_buffer EXCEPT ![vm.output_ptr] = 0]
         ELSE output_buffer
  /\ result_code' = IF result_code = BF_SUCCESS THEN vm.output_ptr
                                                ELSE result_code
  /\ pc' = "cleanup"
  /\ UNCHANGED <<args, vm, debug_halt, heap,
                 hook_calls, effected, hooked, executed, dispatches, ref>>

(* ------------------------------------------------------------------ *)
(* bfvm_run: cleanup_and_exit (lines 265-274).                         *)
(* ------------------------------------------------------------------ *)
Cleanup ==
  /\ pc = "cleanup"
  /\ heap' = LET h1 == IF vm.memory_set THEN Free(heap, "tape") ELSE heap
             IN  IF vm.jump_table_set THEN Free(h1, "table") ELSE h1
  /\ pc' = "returned"
  /\ UNCHANGED <<args, vm, output_buffer, result_code, debug_halt,
                 hook_calls, effected, hooked, executed, dispatches, ref>>

(* ------------------------------------------------------------------ *)
(* The reference engine: the switch of lines 179-252 executed one      *)
(* character at a time, i.e. with the folding loops never taken        *)
(* (count = 1) and without the clear-cell branch of lines 231-242.     *)
(* It runs on the same arguments and the same jump table once the      *)
(* optimized run has returned, when no hook is stepping.               *)
(* ------------------------------------------------------------------ *)
StaticErrors ==
  {BF_ERR_INVALID_ARGS, BF_ERR_TAPE_ALLOC_FAILED, BF_ERR_JUMPTABLE_ALLOC_FAILED,
   BF_ERR_STACK_OVERFLOW, BF_ERR_UNMATCHED_BRACKET_CLOSE,
   BF_ERR_UNMATCHED_BRACKET_OPEN}

RefFail(r, code) == [r EXCEPT !.result_code = code, !.pc = "done"]

RefExecute(r) ==
  LET c == CodeAt(r.ip)
      cell == r.memory[r.dp]
  IN  CASE c = ">" ->
             IF r.dp + 1 >= vm.memory_size
               THEN RefFail(r, BF_ERR_MEMORY_OUT_OF_BOUNDS)
               ELSE [r EXCEPT !.dp = @ + 1, !.ip = @ + 1]
        [] c = "<" ->
             IF r.dp < 1
               THEN RefFail(r, BF_ERR_MEMORY_OUT_OF_BOUNDS)
               ELSE [r EXCEPT !.dp = @ - 1, !.ip = @ + 1]
        [] c = "+" ->
             [r EXCEPT !.memory[r.dp] = (cell + 1) % Byte, !.ip = @ + 1]
        [] c = "-" ->
             [r EXCEPT !.memory[r.dp] = (cell - 1) % Byte, !.ip = @ + 1]
        [] c = "." ->
             IF r.output_ptr >= args.out_len_max
               THEN RefFail(r, BF_ERR_OUTPUT_OVERFLOW)
               ELSE [r EXCEPT !.output_buffer[r.output_ptr] = cell,
                              !.output_ptr = @ + 1, !.ip = @ + 1]
        [] c = "," ->
             IF ~args.in_null /\ r.input_ptr < args.in_len
               THEN [r EXCEPT !.memory[r.dp] = args.input_buf[r.input_ptr + 1],
                              !.input_ptr = @ + 1, !.ip = @ + 1]
               ELSE [r EXCEPT !.memory[r.dp] = 0, !.ip = @ + 1]
        [] c = "[" ->
             IF cell = 0
               THEN [r EXCEPT !.ip = vm.jump_table[r.ip] + 1]
               ELSE [r EXCEPT !.ip = @ + 1]
        [] c = "]" ->
             IF cell # 0
               THEN [r EXCEPT !.ip = vm.jump_table[r.ip] + 1]
               ELSE [r EXCEPT !.ip = @ + 1]
        [] OTHER -> [r EXCEPT !.ip = @ + 1]

RefExit(r) ==
  [r EXCEPT !.output_buffer =
              IF r.output_ptr < args.out_len_max
                THEN [@ EXCEPT ![r.output_ptr] = 0]
                ELSE @,
            !.result_code = r.output_ptr,
            !.pc = "done"]

RefBegin ==
  /\ pc = "returned"
  /\ ref.pc = "idle"
  /\ ~Stepping
  /\ result_code \notin StaticErrors
  /\ ref' = [pc |-> "run", ip |-> 0, dp |-> 0,
             memory |-> [k \in 0..(vm.memory_size - 1) |-> 0],
             input_ptr |-> 0, output_ptr |-> 0,
             output_buffer |-> [k \in 0..(args.out_len_max - 1) |-> Untouched],
             result_code |-> BF_SUCCESS]
  /\ UNCHANGED <<args, vm, output_buffer, result_code, debug_halt, heap, pc, hook_calls, effected, hooked, executed, dispatches>>

RefStep ==
  /\ pc = "returned"
  /\ ref.pc = "run"
  /\ ref' = IF ref.ip < code_len THEN RefExecute(ref) ELSE RefExit(ref)
  /\ UNCHANGED <<args, vm, output_buffer, result_code, debug_halt, heap, pc, hook_calls, effected, hooked, executed, dispatches>>

Next ==
  \/ ValidateArgs
  \/ AllocTape
  \/ BuildJumpTable
  \/ HookPre
  \/ MoveFold
  \/ AddFold
  \/ Output
  \/ Input
  \/ LoopOpen
  \/ HookPost
  \/ LoopClose
  \/ Comment
  \/ NormalExit
  \/ Cleanup
  \/ RefBegin
  \/ RefStep

Spec == Init /\ [][Next]_vars

(* The same runs, and runs on the program texts at the nesting limit. *)
SpecDeep == InitDeep /\ [][Next]_vars

(* The same runs as Spec, in which bfvm_run, one sequential thread     *)
(* whose callback returns, always takes its next step.                 *)
FairSpec == Init /\ [][Next]_vars /\ WF_vars(Next)


(* ------------------------------------------------------------------ *)
(* Properties.                                                         *)
(* ------------------------------------------------------------------ *)

(* The run has allocated its tape: dp and the tape are in use. *)
TypeOK ==
  /\ pc \in {"entry", "alloc_tape", "bjt_entry", "loop", "dispatch",
             "hook_post", "cleanup", "returned"}
  /\ ref.pc \in {"idle", "run", "done"}
  /\ vm.ip \in 0..(code_len + 1)
  /\ \A k \in DOMAIN vm.memory : vm.memory[k] \in 0..(Byte - 1)
  /\ \A b \in Blocks : heap[b] \in {"unallocated", "live", "freed", "bad_free"}

(* ------------------------------------------------------------------ *)
(* Bracket structure of the program text, defined on the text alone.   *)
(* ------------------------------------------------------------------ *)
Min2(a, b) == IF a < b THEN a ELSE b
Max2(a, b) == IF a > b THEN a ELSE b

(* For the characters at positions a..b: tot is the number of `[`      *)
(* minus the number of `]`; lo and hi are the least and the greatest   *)
(* value of that difference over the prefixes of a..b (the empty       *)
(* prefix included).                                                   *)
RECURSIVE Seg(_, _)
Seg(a, b) ==
  IF a > b THEN [tot |-> 0, lo |-> 0, hi |-> 0]
  ELSE IF a = b
    THEN LET d == IF CodeAt(a) = "[" THEN 1
                  ELSE IF CodeAt(a) = "]" THEN -1 ELSE 0
         IN  [tot |-> d, lo |-> Min2(0, d), hi |-> Max2(0, d)]
    ELSE LET m == (a + b) \div 2
             l == Seg(a, m)
             r == Seg(m + 1, b)
         IN  [tot |-> l.tot + r.tot,
              lo |-> Min2(l.lo, l.tot + r.lo),
              hi |-> Max2(l.hi, l.tot + r.hi)]

(* Every `]` closes an earlier `[` and every `[` is closed. *)
Balanced == LET w == Seg(0, code_len - 1) IN w.tot = 0 /\ w.lo >= 0

(* Some `]` has no pending `[` when the text is read left to right. *)
HasExcessClose == Seg(0, code_len - 1).lo < 0

(* The bracket at q properly matches the `[` at p: the text strictly   *)
(* between them is balanced.                                           *)
Matches(p, q) ==
  /\ p < q
  /\ CodeAt(p) = "[" /\ CodeAt(q) = "]"
  /\ LET w == Seg(p + 1, q - 1) IN w.tot = 0 /\ w.lo >= 0

(* Some `[` has no matching `]`. *)
HasUnmatchedOpen ==
  \E p \in 0..(code_len - 1) :
    /\ CodeAt(p) = "["
    /\ \A q \in (p + 1)..(code_len - 1) : ~Matches(p, q)

(* The same, counted: once the matching pairs are removed, -lo `]`     *)
(* remain, followed by tot - lo `[`.                                   *)
HasExcessOpen == LET w == Seg(0, code_len - 1) IN w.tot - w.lo > 0

(* The least position k of a..b at which acc plus the difference over  *)
(* a..k is negative, when there is one (acc >= 0).                     *)
RECURSIVE FirstBelow(_, _, _)
FirstBelow(a, b, acc) ==
  IF a >= b THEN a
  ELSE LET m == (a + b) \div 2
           l == Seg(a, m)
       IN  IF acc + l.lo < 0 THEN FirstBelow(a, m, acc)
                             ELSE FirstBelow(m + 1, b, acc + l.tot)

(* The position of the first `]` that has no pending `[`. *)
FirstExcessClose == FirstBelow(0, code_len - 1, 0)

(* The greatest number of `[` pending at once. *)
NestingDepth == Seg(0, code_len - 1).hi

BracketPositions ==
  {p \in 0..(code_len - 1) : CodeAt(p) \in {"[", "]"}}

(* build_jump_table returned BF_SUCCESS in this run. *)
BuildSucceeded ==
  \/ pc \in {"loop", "dispatch", "hook_post"}
  \/ pc \in {"cleanup", "returned"} /\ result_code \notin StaticErrors

(* The arguments pass validation and no allocation failed. *)
RunAdmitted ==
  /\ ~args.code_null /\ ~args.out_null /\ args.requested_mem_size # 0
  /\ result_code \notin {BF_ERR_TAPE_ALLOC_FAILED, BF_ERR_JUMPTABLE_ALLOC_FAILED}

(* Length of the maximal run of the character at position p that       *)
(* starts at p, counted on the program text.                           *)
RunLength(p) ==
  CHOOSE n \in 1..(code_len - p) :
    /\ \A k \in 0..(n - 1) : CodeAt(p + k) = CodeAt(p)
    /\ (p + n = code_len \/ CodeAt(p + n) # CodeAt(p))

(* C1: once the tape is allocated (capacity C = memory_size > 0), dp   *)
(* is in 0..C-1 in every state and the tape has exactly the cells      *)
(* 0..C-1; a dispatched run of `>` or `<` that would take dp out of    *)
(* this range ends the run with the out-of-bounds code and leaves dp   *)
(* alone, and any other dispatched run moves dp by its length.         *)
C1_DpWithinTape ==
  /\ [](vm.memory_set =>
          /\ vm.memory_size = args.requested_mem_size
          /\ vm.memory_size > 0
          /\ DOMAIN vm.memory = 0..(vm.memory_size - 1)
          /\ vm.dp \in 0..(vm.memory_size - 1))
  /\ [][(AtDispatch /\ command \in {">", "<"}) =>
          LET n == RunLength(vm.ip)
              target == IF command = ">" THEN vm.dp + n ELSE vm.dp - n
          IN  IF target \in 0..(vm.memory_size - 1)
                THEN vm'.dp = target /\ pc' = "loop"
                ELSE /\ vm'.dp = vm.dp
                     /\ result_code' = BF_ERR_MEMORY_OUT_OF_BOUNDS
                     /\ pc' = "cleanup"]_vars

(* A run of `<` was refused after dp had moved right. *)
C1_Witness ==
  /\ pc = "returned"
  /\ result_code = BF_ERR_MEMORY_OUT_OF_BOUNDS
  /\ vm.dp > 0

(* C2: with no hook stepping, whenever the optimized engine and the    *)
(* reference engine have both returned on the same arguments, they     *)
(* return the same result code, the same output bytes and output       *)
(* cursor, and on normal completion the same tape, dp and input        *)
(* cursor.                                                             *)
C2_EnginesAgree ==
  ref.pc = "done" =>
    /\ ref.result_code = result_code
    /\ ref.output_buffer = output_buffer
    /\ ref.output_ptr = vm.output_ptr
    /\ result_code >= 0 =>
         /\ ref.memory = vm.memory
         /\ ref.dp = vm.dp
         /\ ref.input_ptr = vm.input_ptr
         /\ ref.ip = vm.ip

(* Both engines returned 1 on a program that folds `++` and takes the  *)
(* clear-cell shortcut on a cell holding 2.                            *)
C2_Witness ==
  /\ ref.pc = "done"
  /\ args.code_buf = <<"+", "+", "[", "+", "]", ".">>
  /\ result_code = 1
  /\ output_buffer[0] = 0

(* C3: a run on a balanced program within the nesting limit (valid     *)
(* arguments, allocations succeeding) gets past build_jump_table, and  *)
(* whenever build_jump_table has succeeded the table has an entry      *)
(* exactly for the bracket positions, each entry holds the bracket     *)
(* that properly matches by nesting (hence the opposite character),    *)
(* jump[jump[p]] = p, and no step after the scan changes the table.    *)
C3_JumpTableCorrect ==
  /\ []((pc = "returned" /\ RunAdmitted /\ Balanced
           /\ NestingDepth <= MAX_BRACKET_DEPTH) => BuildSucceeded)
  /\ [](BuildSucceeded =>
          /\ DOMAIN vm.jump_table = BracketPositions
          /\ \A p \in BracketPositions :
               LET q == vm.jump_table[p]
               IN  /\ q \in BracketPositions
                   /\ vm.jump_table[q] = p
                   /\ CodeAt(q) # CodeAt(p)
                   /\ IF CodeAt(p) = "[" THEN Matches(p, q) ELSE Matches(q, p))
  /\ [][pc # "bjt_entry" => vm'.jump_table = vm.jump_table]_vars

(* A nested and sequenced bracket structure was resolved and the run   *)
(* completed.                                                          *)
C3_Witness ==
  /\ pc = "returned"
  /\ args.code_buf = <<"[", "[", "]", "]", "[", "]">>
  /\ result_code = 0
  /\ vm.jump_table[0] = 3 /\ vm.jump_table[1] = 2 /\ vm.jump_table[4] = 5

(* No instruction has executed: no dispatch, no hook invocation, no    *)
(* output byte written, no tape cell or cursor changed.                *)
NothingExecuted ==
  /\ ~executed
  /\ ~hooked
  /\ \A k \in DOMAIN output_buffer : output_buffer[k] = Untouched
  /\ \A k \in DOMAIN vm.memory : vm.memory[k] = 0
  /\ vm.dp = 0 /\ vm.ip = 0 /\ vm.input_ptr = 0 /\ vm.output_ptr = 0

(* C4 as stated: a run (valid arguments, allocations succeeding) on a  *)
(* program with an excess close bracket returns the unmatched-close    *)
(* code, and nothing has executed.                                     *)
C4_ExcessCloseAsStated ==
  (pc = "returned" /\ RunAdmitted /\ HasExcessClose) =>
    /\ result_code = BF_ERR_UNMATCHED_BRACKET_CLOSE
    /\ NothingExecuted

(* C4, amended: a run (valid arguments, allocations succeeding) on a   *)
(* program with an excess close bracket before which never more than   *)
(* MAX_BRACKET_DEPTH open brackets are pending returns the             *)
(* unmatched-close code, and nothing has executed: the hook was never  *)
(* invoked, no output byte was written, no tape cell was changed.      *)
C4_ExcessCloseWithinLimit ==
  (pc = "returned" /\ RunAdmitted /\ HasExcessClose
     /\ Seg(0, FirstExcessClose - 1).hi <= MAX_BRACKET_DEPTH) =>
    /\ result_code = BF_ERR_UNMATCHED_BRACKET_CLOSE
    /\ NothingExecuted

(* A stepping run on a program whose excess `]` follows executable     *)
(* instructions returned unmatched-close.                              *)
C4_Witness ==
  /\ pc = "returned"
  /\ args.code_buf = <<"+", ".", "]", "[">>
  /\ Stepping
  /\ args.out_len_max = 1
  /\ result_code = BF_ERR_UNMATCHED_BRACKET_CLOSE

(* The two readings of "excess open bracket" agree on every program. *)
ExcessOpenReadingsAgree == HasUnmatchedOpen <=> HasExcessOpen

(* C5 as stated: a run (valid arguments, allocations succeeding) on a  *)
(* program with an excess open bracket returns the unmatched-open      *)
(* code.                                                               *)
C5_ExcessOpenAsStated ==
  (pc = "returned" /\ RunAdmitted /\ HasExcessOpen) =>
    result_code = BF_ERR_UNMATCHED_BRACKET_OPEN

(* C5, amended: a run (valid arguments, allocations succeeding) on a   *)
(* program with an excess open bracket, no excess close bracket and    *)
(* never more than MAX_BRACKET_DEPTH open brackets pending returns     *)
(* the unmatched-open code.                                            *)
C5_ExcessOpenOnly ==
  (pc = "returned" /\ RunAdmitted /\ HasExcessOpen /\ ~HasExcessClose
     /\ NestingDepth <= MAX_BRACKET_DEPTH) =>
    result_code = BF_ERR_UNMATCHED_BRACKET_OPEN

(* A run on `[[]` returned unmatched-open. *)
C5_Witness ==
  /\ pc = "returned"
  /\ args.code_buf = <<"[", "[", "]">>
  /\ result_code = BF_ERR_UNMATCHED_BRACKET_OPEN

(* C6: when a hook is registered and single-step mode is on, every     *)
(* instruction that took effect in the current loop iteration (each    *)
(* character of a folded run included) has a hook invocation of that   *)
(* iteration carrying its position and the (dp, tape[dp]) snapshot     *)
(* taken just before it took effect.                                   *)
C6_HookBeforeEachInstruction ==
  Stepping =>
    \A e \in effected : \E j \in 1..Len(hook_calls) : hook_calls[j] = e

(* C7: the hook has never been invoked, at either call site, in a run  *)
(* where no hook is registered or single-step mode is off.             *)
C7_NoHookUnlessStepping ==
  (args.debug_callback_ptr = 0 \/ args.single_step = 0) =>
    /\ ~hooked
    /\ hook_calls = <<>>
    /\ pc # "hook_post"

(* A run with a hook registered but single-step mode off took the      *)
(* clear-cell shortcut and completed without any hook invocation.      *)
C7_Witness ==
  /\ pc = "returned"
  /\ args.debug_callback_ptr # 0 /\ args.single_step = 0
  /\ args.code_buf = <<"+", "[", "-", "]", ".">>
  /\ result_code = 1
  /\ ~hooked

(* C8: once a hook invocation has returned nonzero, the result code is *)
(* debug-halt and the run is on its way out; the halting invocation    *)
(* itself and every later step leave the tape, dp, the input and       *)
(* output cursors, the output bytes and the result code as they were   *)
(* when the hook was called, dispatch nothing and invoke no hook; a    *)
(* halt on the first invocation leaves zero bytes written.             *)
C8_HaltStopsTheRun ==
  /\ [](debug_halt # 0 =>
          /\ result_code = BF_ERR_DEBUG_HALT_REQUESTED
          /\ pc \in {"cleanup", "returned"}
          /\ hooked
          /\ ~executed =>
               /\ vm.output_ptr = 0
               /\ \A k \in DOMAIN output_buffer : output_buffer[k] = Untouched)
  /\ [][debug_halt' # 0 =>
          /\ vm' = vm
          /\ output_buffer' = output_buffer
          /\ executed' = executed
          /\ debug_halt # 0 =>
               /\ hook_calls' = hook_calls
               /\ result_code' = result_code
               /\ debug_halt' = debug_halt]_vars

(* The second invocation of an iteration, after the clear-cell         *)
(* shortcut, halted the run.                                           *)
C8_Witness ==
  /\ pc = "returned"
  /\ debug_halt # 0
  /\ Len(hook_calls) = 2
  /\ result_code = BF_ERR_DEBUG_HALT_REQUESTED

(* The clear-cell idiom stands at position p of the text. *)
IdiomAt(p) ==
  /\ p + 2 < code_len
  /\ CodeAt(p) = "["
  /\ CodeAt(p + 1) \in {"-", "+"}
  /\ CodeAt(p + 2) = "]"

(* What the shortcut does from the dispatch of `[` at vm.ip: the cell  *)
(* becomes 0 and nothing else of the tape or the cursors changes;      *)
(* when stepping, ip stops on the close bracket for one more hook      *)
(* invocation, otherwise it moves past the idiom.                      *)
ShortcutTaken ==
  /\ vm'.memory = [vm.memory EXCEPT ![vm.dp] = 0]
  /\ vm'.dp = vm.dp
  /\ vm'.input_ptr = vm.input_ptr /\ vm'.output_ptr = vm.output_ptr
  /\ IF Stepping
       THEN pc' = "hook_post" /\ vm'.ip = vm.ip + 2
       ELSE pc' = "loop" /\ vm'.ip = vm.ip + 3

(* The one further hook invocation on the close bracket: it carries    *)
(* (ip, dp, 0); a nonzero return ends the run with debug-halt before   *)
(* ip advances, a zero return advances ip past the idiom.              *)
SecondInvocation ==
  /\ CodeAt(vm.ip) = "]"
  /\ vm.memory[vm.dp] = 0
  /\ Len(hook_calls) = 1
  /\ hook_calls' = Append(hook_calls, <<vm.ip, vm.dp, 0>>)
  /\ IF debug_halt' # 0
       THEN /\ result_code' = BF_ERR_DEBUG_HALT_REQUESTED
            /\ pc' = "cleanup"
            /\ vm' = vm
       ELSE /\ pc' = "loop"
            /\ vm' = [vm EXCEPT !.ip = @ + 1]

(* C9 as stated: whenever `[` is dispatched on the idiom, whatever the *)
(* cell holds, the shortcut is taken with its further hook invocation. *)
C9_ShortcutAsStated ==
  [][/\ (AtDispatch /\ IdiomAt(vm.ip)) => ShortcutTaken
     /\ pc = "hook_post" => SecondInvocation]_vars

(* C9, amended: when `[` is dispatched on the idiom with a nonzero     *)
(* cell, the shortcut is taken with its further hook invocation; with  *)
(* a zero cell the engine takes the ordinary jump instead: the cell    *)
(* stays 0, ip moves past the idiom and the hook is not invoked again. *)
C9_ShortcutOnNonzeroCell ==
  [][/\ (AtDispatch /\ IdiomAt(vm.ip) /\ vm.memory[vm.dp] # 0) => ShortcutTaken
     /\ (AtDispatch /\ IdiomAt(vm.ip) /\ vm.memory[vm.dp] = 0) =>
          /\ vm' = [vm EXCEPT !.ip = @ + 3]
          /\ pc' = "loop"
          /\ hook_calls' = hook_calls
     /\ pc = "hook_post" => SecondInvocation]_vars

(* A stepping run cleared a cell holding 65 and the hook was invoked   *)
(* again on the close bracket with (3, 0, 0).                          *)
C9_Witness ==
  /\ args.code_buf = <<",", "[", "-", "]", ".">>
  /\ Len(hook_calls) = 2
  /\ hook_calls[1] = <<1, 0, 65>>
  /\ hook_calls[2] = <<3, 0, 0>>
  /\ debug_halt = 0

(* Nothing was allocated. *)
NothingAllocated == \A b \in Blocks : heap[b] = "unallocated"

(* No malloc of the run failed. *)
AllocationsSucceeded ==
  result_code \notin {BF_ERR_TAPE_ALLOC_FAILED, BF_ERR_JUMPTABLE_ALLOC_FAILED}

(* C10 as stated: a run whose program is null or zero-length, whose    *)
(* tape capacity is zero or whose output buffer is null returns the    *)
(* invalid-arguments code with nothing allocated or executed (runs in  *)
(* which a malloc fails set aside).                                    *)
C10_InvalidArgsAsStated ==
  (pc = "returned" /\ AllocationsSucceeded
     /\ (args.code_null \/ args.code_len = 0 \/ args.requested_mem_size = 0
           \/ args.out_null)) =>
    /\ result_code = BF_ERR_INVALID_ARGS
    /\ NothingAllocated
    /\ NothingExecuted

(* C10, amended: a run whose program is null, whose tape capacity is   *)
(* zero or whose output buffer is null returns the invalid-arguments   *)
(* code with nothing allocated or executed; a zero-length program      *)
(* that is not null is not rejected: with the other arguments valid    *)
(* and the allocations succeeding the run returns 0.                   *)
C10_InvalidArgs ==
  /\ (pc = "returned"
        /\ (args.code_null \/ args.requested_mem_size = 0 \/ args.out_null)) =>
       /\ result_code = BF_ERR_INVALID_ARGS
       /\ NothingAllocated
       /\ NothingExecuted
  /\ (pc = "returned" /\ RunAdmitted /\ args.code_len = 0) =>
       result_code = 0
  /\ result_code = BF_ERR_INVALID_ARGS =>
       (args.code_null \/ args.requested_mem_size = 0 \/ args.out_null)

(* A run with a program and a tape size but a null output buffer was   *)
(* rejected.                                                           *)
C10_Witness ==
  /\ pc = "returned"
  /\ args.out_null /\ ~args.code_null /\ args.requested_mem_size > 0
  /\ args.code_len > 0
  /\ result_code = BF_ERR_INVALID_ARGS

(* C11: the output cursor is within 0..output_max_len in every state;  *)
(* a dispatched `.` with output_ptr < output_max_len stores the        *)
(* current cell at output[output_ptr] and advances the cursor by one;  *)
(* a dispatched `.` with output_ptr = output_max_len ends the run with *)
(* the output-overflow code, writes nothing and leaves the cursor      *)
(* alone; so the program `.` run with capacity 0 (no halt) returns     *)
(* the output-overflow code.                                           *)
C11_OutputWithinCapacity ==
  /\ [](0 <= vm.output_ptr /\ vm.output_ptr <= args.out_len_max)
  /\ [][(AtDispatch /\ command = ".") =>
          IF vm.output_ptr < args.out_len_max
            THEN /\ output_buffer' =
                      [output_buffer EXCEPT ![vm.output_ptr] = vm.memory[vm.dp]]
                 /\ vm'.output_ptr = vm.output_ptr + 1
                 /\ pc' = "loop"
            ELSE /\ vm.output_ptr = args.out_len_max
                 /\ result_code' = BF_ERR_OUTPUT_OVERFLOW
                 /\ pc' = "cleanup"
                 /\ output_buffer' = output_buffer
                 /\ vm'.output_ptr = vm.output_ptr]_vars
  /\ []((/\ pc = "returned" /\ RunAdmitted /\ debug_halt = 0
         /\ args.code_buf = <<".">> /\ args.out_len_max = 0)
        => result_code = BF_ERR_OUTPUT_OVERFLOW)

(* A second `.` was refused after the first one filled the buffer with *)
(* an input byte.                                                      *)
C11_Witness ==
  /\ pc = "returned"
  /\ result_code = BF_ERR_OUTPUT_OVERFLOW
  /\ args.out_len_max = 1
  /\ vm.output_ptr = 1
  /\ output_buffer[0] \in InputBytes

(* C12: a dispatched `,` never fails: with input_ptr < input_len (and  *)
(* an input buffer) it stores input[input_ptr] in the current cell     *)
(* and advances the input cursor by one; at the end of the input, or   *)
(* with no input buffer, it stores 0 and leaves the cursor alone; the  *)
(* run goes on either way. The input cursor is within 0..input_len in  *)
(* every state and no run returns the input-end-of-data code. So the   *)
(* program `,.` (output capacity at least 1, no halt) returns 1 with   *)
(* the first input byte as its output, or 0 when there is no input.    *)
C12_InputNeverFails ==
  /\ [](0 <= vm.input_ptr /\ vm.input_ptr <= args.in_len)
  /\ [](result_code # BF_ERR_INPUT_EOF)
  /\ [][(AtDispatch /\ command = ",") =>
          /\ pc' = "loop"
          /\ result_code' = result_code
          /\ vm'.ip = vm.ip + 1
          /\ IF ~args.in_null /\ vm.input_ptr < args.in_len
               THEN /\ vm'.memory[vm.dp] = args.input_buf[vm.input_ptr + 1]
                    /\ vm'.input_ptr = vm.input_ptr + 1
               ELSE /\ vm'.memory[vm.dp] = 0
                    /\ vm'.input_ptr = vm.input_ptr]_vars
  /\ []((/\ pc = "returned" /\ RunAdmitted /\ debug_halt = 0
         /\ args.code_buf = <<",", ".">> /\ args.out_len_max >= 1)
        => /\ result_code = 1
           /\ output_buffer[0] =
                IF ~args.in_null /\ args.in_len > 0 THEN args.input_buf[1]
                                                    ELSE 0)

(* In `,.,.` with one input byte the first `,` read the byte, which   *)
(* was printed, and the second `,` found the input exhausted and       *)
(* cleared the cell.                                                   *)
C12_Witness ==
  /\ pc = "returned"
  /\ RunAdmitted
  /\ args.code_buf = <<",", ".", ",", ".">>
  /\ ~args.in_null /\ args.in_len = 1
  /\ args.out_len_max >= 1
  /\ vm.output_ptr >= 1
  /\ vm.input_ptr = 1
  /\ output_buffer[0] = args.input_buf[1]
  /\ vm.memory[vm.dp] = 0

(* C13: no block is ever released twice or released without having    *)
(* been allocated, and when bfvm_run has returned no block is still    *)
(* allocated: on every exit path that got past the allocations        *)
(* (normal completion, each error of build_jump_table, out-of-bounds,  *)
(* output overflow, debug halt) the tape and the jump table have each  *)
(* been allocated and released exactly once.                           *)
C13_ReleasedExactlyOnce ==
  /\ \A b \in Blocks : heap[b] # "bad_free"
  /\ pc = "returned" =>
       /\ \A b \in Blocks : heap[b] \in {"unallocated", "freed"}
       /\ RunAdmitted => heap["tape"] = "freed" /\ heap["table"] = "freed"
       /\ ~vm.memory_set => heap["tape"] = "unallocated"

(* A run refused by build_jump_table for an unmatched `[` returned     *)
(* with the tape and the table both released.                          *)
C13_Witness ==
  /\ pc = "returned"
  /\ result_code = BF_ERR_UNMATCHED_BRACKET_OPEN
  /\ heap["tape"] = "freed"
  /\ heap["table"] = "freed"
  /\ heap["stack"] = "freed"

(* The loop test of line 161 has failed: the run is at its normal exit. *)
AtNormalExit == pc = "loop" /\ ~(vm.ip < code_len)

(* C14: a run ends normally exactly when ip reaches code_len with no   *)
(* failure or halt. The normal exit returns output_ptr, which is not   *)
(* negative and so is none of the error codes, and writes a zero at    *)
(* output[output_ptr] if and only if output_ptr < output_max_len,      *)
(* without moving the cursor. Every other way out of the run sets one  *)
(* of the negative error codes and leaves the output buffer as it is   *)
(* (no terminator).                                                    *)
C14_NormalExitReturnsCount ==
  /\ [][AtNormalExit =>
          /\ pc' = "cleanup"
          /\ result_code' = vm.output_ptr
          /\ result_code' >= 0
          /\ result_code' \notin ErrorCodes
          /\ vm' = vm
          /\ output_buffer' =
               IF vm.output_ptr < args.out_len_max
                 THEN [output_buffer EXCEPT ![vm.output_ptr] = 0]
                 ELSE output_buffer]_vars
  /\ [][(/\ pc \notin {"cleanup", "returned"}
         /\ pc' \in {"cleanup", "returned"}
         /\ ~AtNormalExit) =>
          /\ result_code' \in ErrorCodes
          /\ result_code' < 0
          /\ output_buffer' = output_buffer]_vars
  /\ [][(pc \in {"cleanup", "returned"}) =>
          /\ result_code' = result_code
          /\ output_buffer' = output_buffer
          /\ vm' = vm]_vars
  /\ [](pc = "returned" =>
          IF result_code >= 0
            THEN /\ vm.ip = code_len
                 /\ debug_halt = 0
                 /\ BuildSucceeded
                 /\ result_code = vm.output_ptr
                 /\ vm.output_ptr < args.out_len_max =>
                      output_buffer[vm.output_ptr] = 0
            ELSE result_code \in ErrorCodes)

(* A run that printed nothing ended normally: it returned 0 and the    *)
(* terminator is the only byte in the output buffer.                   *)
C14_Witness ==
  /\ pc = "returned"
  /\ executed
  /\ result_code = 0
  /\ args.out_len_max = 1
  /\ output_buffer[0] = 0

(* The program text consists of `>` only. *)
AllRight == \A k \in 0..(code_len - 1) : CodeAt(k) = ">"

(* C15: a dispatched run of n `>` fails with the out-of-bounds code    *)
(* if and only if dp + n >= memory_size, and a dispatched run of n `<` *)
(* if and only if dp < n; a failing run leaves dp and the tape alone   *)
(* and writes no output, a run that does not fail moves dp by n. So,   *)
(* with tape capacity C and no allocation failure or halt, a program   *)
(* of C-1 `>` completes normally with dp = C-1, and a program of C `>` *)
(* fails with the out-of-bounds code, with dp at most C-1 and nothing  *)
(* else changed.                                                       *)
C15_MovesFailAtTheBounds ==
  /\ [][(AtDispatch /\ command \in {">", "<"}) =>
          LET n == RunLength(vm.ip)
              fails == IF command = ">" THEN vm.dp + n >= vm.memory_size
                                        ELSE vm.dp < n
          IN  /\ fails <=> (pc' = "cleanup"
                            /\ result_code' = BF_ERR_MEMORY_OUT_OF_BOUNDS)
              /\ fails => /\ vm'.dp = vm.dp
                          /\ vm'.memory = vm.memory
                          /\ vm'.output_ptr = vm.output_ptr
                          /\ vm'.input_ptr = vm.input_ptr
                          /\ output_buffer' = output_buffer
              /\ ~fails => /\ pc' = "loop"
                           /\ result_code' = result_code
                           /\ vm'.dp = IF command = ">" THEN vm.dp + n
                                                        ELSE vm.dp - n]_vars
  /\ []((pc = "returned" /\ RunAdmitted /\ debug_halt = 0 /\ AllRight) =>
          /\ code_len = vm.memory_size - 1 =>
               /\ result_code = 0
               /\ vm.dp = vm.memory_size - 1
          /\ code_len = vm.memory_size =>
               /\ result_code = BF_ERR_MEMORY_OUT_OF_BOUNDS
               /\ vm.dp <= vm.memory_size - 1
               /\ vm.output_ptr = 0 /\ vm.input_ptr = 0
               /\ \A k \in DOMAIN vm.memory : vm.memory[k] = 0
               /\ \A k \in DOMAIN output_buffer : output_buffer[k] = Untouched)

(* A program of as many `>` as the tape has cells, two or more, was    *)
(* refused with dp still at 0.                                         *)
C15_Witness ==
  /\ pc = "returned"
  /\ AllRight
  /\ code_len = vm.memory_size
  /\ code_len >= 2
  /\ result_code = BF_ERR_MEMORY_OUT_OF_BOUNDS
  /\ vm.dp = 0

(* On the program text: the scan reaches a `[` while MAX_BRACKET_DEPTH *)
(* open brackets are pending, i.e. the pending count would pass the    *)
(* limit before any excess `]` has ended the scan.                     *)
OpenScannedAtLimit ==
  IF HasExcessClose
    THEN Seg(0, FirstExcessClose - 1).hi > MAX_BRACKET_DEPTH
    ELSE NestingDepth > MAX_BRACKET_DEPTH

(* C16: the scan's stack never holds more than MAX_BRACKET_DEPTH       *)
(* entries. A run (valid arguments, allocations succeeding) on a       *)
(* balanced program whose nesting depth is at most MAX_BRACKET_DEPTH,  *)
(* the limit itself included, is not refused by the scan; a run on a   *)
(* program in which a `[` is scanned while MAX_BRACKET_DEPTH open      *)
(* brackets are pending returns the stack-overflow code, which is      *)
(* neither the unmatched-open nor the unmatched-close code, and        *)
(* nothing has executed; no other run returns the stack-overflow code. *)
C16_NestingLimit ==
  /\ BF_ERR_STACK_OVERFLOW \notin
       {BF_ERR_UNMATCHED_BRACKET_OPEN, BF_ERR_UNMATCHED_BRACKET_CLOSE}
  /\ pc = "bjt_entry" =>
       ScanRange(ScanStart, 0, code_len - 1).peak <= MAX_BRACKET_DEPTH
  /\ (pc = "returned" /\ RunAdmitted) =>
       /\ (Balanced /\ NestingDepth <= MAX_BRACKET_DEPTH) =>
            result_code \notin StaticErrors
       /\ OpenScannedAtLimit =>
            /\ result_code = BF_ERR_STACK_OVERFLOW
            /\ NothingExecuted
       /\ result_code = BF_ERR_STACK_OVERFLOW => OpenScannedAtLimit

(* A balanced program nested exactly MAX_BRACKET_DEPTH deep was        *)
(* accepted and ran to its normal exit.                                *)
C16_Witness ==
  /\ pc = "returned"
  /\ result_code = 0
  /\ executed
  /\ code_len = 2 * MAX_BRACKET_DEPTH
  /\ Balanced
  /\ NestingDepth = MAX_BRACKET_DEPTH

(* The program `++++++++[>++++++++<-]>.` *)
EightTimesEight ==
  <<"+", "+", "+", "+", "+", "+", "+", "+",
    "[", ">", "+", "+", "+", "+", "+", "+", "+", "+", "<", "-", "]",
    ">", ".">>

(* The arguments of the claim: the program, a tape of at least 2       *)
(* cells, room for at least 1 output byte, no debug hook.              *)
EightTimesEightArgs ==
  /\ ~args.code_null /\ ~args.out_null
  /\ args.code_buf = EightTimesEight
  /\ args.requested_mem_size >= 2
  /\ args.out_len_max >= 1
  /\ args.debug_callback_ptr = 0

(* C17: a run of `++++++++[>++++++++<-]>.` with a tape of at least 2   *)
(* cells, room for at least 1 output byte and no debug hook returns,   *)
(* and unless an allocation failed it has ended normally: it returns   *)
(* 1 and the one byte it has written is 64.                            *)
C17_EightTimesEight ==
  /\ []((pc = "returned" /\ EightTimesEightArgs /\ RunAdmitted) =>
          /\ result_code = 1
          /\ vm.ip = code_len
          /\ vm.output_ptr = 1
          /\ output_buffer[0] = 64)
  /\ (EightTimesEightArgs => <>(pc = "returned"))

(* The run of the program has returned 1 with 64 in the output and the *)
(* counter cell back at 0.                                             *)
C17_Witness ==
  /\ pc = "returned"
  /\ args.code_buf = EightTimesEight
  /\ args.debug_callback_ptr = 0
  /\ result_code = 1
  /\ output_buffer[0] = 64
  /\ vm.memory[0] = 0
  /\ vm.dp = 1

(* On the program text: the `[` that matches the `]` at position q. *)
MatchingOpen(q) == CHOOSE p \in 0..(q - 1) : Matches(p, q)

(* The hook is handed the position the loop is at, and the switch then *)
(* dispatches the instruction at that same position.                   *)
HookReportsDispatchPosition ==
  [][(pc = "loop" /\ vm.ip < code_len /\ HookDue) =>
       /\ hook_calls' = <<Snapshot(vm)>>
       /\ vm' = vm
       /\ pc' \in {"dispatch", "cleanup"}]_vars

(* C18 as stated: after a `]` dispatched on a nonzero cell the next    *)
(* instruction dispatched, and the next position reported to the hook, *)
(* is the matching `[`; after a `]` dispatched on a zero cell it is    *)
(* the instruction just after the `]`.                                 *)
C18_BackJumpAsStated ==
  /\ HookReportsDispatchPosition
  /\ [][(AtDispatch /\ command = "]") =>
          /\ pc' = "loop"
          /\ vm'.ip = IF vm.memory[vm.dp] # 0 THEN MatchingOpen(vm.ip)
                                              ELSE vm.ip + 1]_vars

(* C18, amended: after a `]` dispatched on a nonzero cell the next     *)
(* instruction dispatched, and the next position reported to the hook, *)
(* is the one just after the matching `[` (the first instruction of    *)
(* the loop body; the `[` itself is not dispatched again); after a `]` *)
(* dispatched on a zero cell it is the instruction just after the `]`. *)
(* Neither case changes the tape or dp.                                *)
C18_BackJumpPastOpen ==
  /\ HookReportsDispatchPosition
  /\ [][(AtDispatch /\ command = "]") =>
          /\ pc' = "loop"
          /\ vm'.ip = IF vm.memory[vm.dp] # 0 THEN MatchingOpen(vm.ip) + 1
                                              ELSE vm.ip + 1
          /\ vm'.memory = vm.memory
          /\ vm'.dp = vm.dp]_vars

(* In `+[--]` the loop is back at the first `-` of its body with the   *)
(* cell at 255, which only a back-jump from the `]` produces.          *)
C18_Witness ==
  /\ args.code_buf = <<"+", "[", "-", "-", "]">>
  /\ pc = "loop"
  /\ vm.ip = 2
  /\ vm.memory[0] = 255

(* On the program text: the `]` that matches the `[` at position p. *)
MatchingClose(p) == CHOOSE q \in (p + 1)..(code_len - 1) : Matches(p, q)

(* C19: when a dispatched `[` falls through into its loop body, or a   *)
(* dispatched `]` jumps back to the body (the position just after its  *)
(* `[`), the current cell is nonzero there; when control                *)
(* arrives just past a `]`, from the `]` itself on a zero cell, from   *)
(* its `[` skipping the loop on a zero cell, or from the clear-cell    *)
(* shortcut (directly, or through the second hook call on the `]`      *)
(* when stepping), the current cell is 0 and ip is the position of     *)
(* that `]` plus one. A dispatched bracket does nothing else.          *)
C19_LoopGuard ==
  /\ [][(AtDispatch /\ command = "[") =>
          LET cell == vm'.memory[vm'.dp]
          IN  \/ pc' = "loop" /\ vm'.ip = vm.ip + 1 /\ cell # 0
              \/ pc' = "loop" /\ vm'.ip = MatchingClose(vm.ip) + 1 /\ cell = 0
              \/ /\ pc' = "hook_post" /\ Stepping
                 /\ vm'.ip = MatchingClose(vm.ip) /\ cell = 0]_vars
  /\ [][(pc = "hook_post") =>
          /\ CodeAt(vm.ip) = "]"
          /\ vm.memory[vm.dp] = 0
          /\ \/ pc' = "loop" /\ vm'.ip = vm.ip + 1 /\ vm'.memory[vm'.dp] = 0
             \/ pc' = "cleanup" /\ debug_halt' # 0]_vars
  /\ [][(AtDispatch /\ command = "]") =>
          LET cell == vm'.memory[vm'.dp]
          IN  /\ pc' = "loop"
              /\ \/ vm'.ip = MatchingOpen(vm.ip) + 1 /\ cell # 0
                 \/ vm'.ip = vm.ip + 1 /\ cell = 0]_vars

(* In `++[>++<-]>.` the loop body is entered a second time, by the     *)
(* back-jump, with the counter cell at 1.                              *)
C19_Witness ==
  /\ args.code_buf = <<"+", "+", "[", ">", "+", "+", "<", "-", "]", ">", ".">>
  /\ pc = "loop"
  /\ vm.ip = 3
  /\ vm.dp = 0
  /\ vm.memory[0] = 1
  /\ vm.memory[1] = 2

(* The program text contains no bracket. *)
BracketFree == \A k \in 0..(code_len - 1) : CodeAt(k) \notin {"[", "]"}

(* The number of steps a bracket-free run can still take before it     *)
(* has returned, at most: two per remaining character (hook call and   *)
(* dispatch), the exit, the cleanup and the steps before the loop.     *)
StepsLeft ==
  CASE pc = "returned"   -> 0
    [] pc = "cleanup"    -> 1
    [] pc = "loop"       -> 2 + 2 * (code_len - vm.ip)
    [] pc = "dispatch"   -> 1 + 2 * (code_len - vm.ip)
    [] pc = "hook_post"  -> 1 + 2 * (code_len - vm.ip)
    [] pc = "bjt_entry"  -> 3 + 2 * code_len
    [] pc = "alloc_tape" -> 4 + 2 * code_len
    [] pc = "entry"      -> 5 + 2 * code_len

(* C20: ip is within 0..code_len in every state. A dispatch step that  *)
(* does not end the run leaves ip exactly one position past what it    *)
(* processed: past the folded run of `>`, `<`, `+` or `-`; past a `.`, *)
(* a `,`, a comment character, a `[` entered on a nonzero cell or a    *)
(* `]` left on a zero cell; past the matching `]` for a `[` skipped on *)
(* a zero cell; past the idiom's `]` for the clear-cell shortcut (in   *)
(* two steps when stepping). So ip strictly increases on every such    *)
(* step except a `]` taken on a nonzero cell, which leaves ip one past *)
(* the matching `[`. A dispatch step that ends the run leaves ip       *)
(* inside the run it was processing. Hence a run of a bracket-free     *)
(* program terminates: it makes at most code_len dispatch steps, never *)
(* more than ip has advanced; until it has returned it can always take *)
(* a step (the hook returns), and every step brings it nearer to its   *)
(* return; it returns either normally with ip = code_len or with an    *)
(* error code.                                                         *)
C20_IpAdvances ==
  /\ [](0 <= vm.ip /\ vm.ip <= code_len)
  /\ [][(AtDispatch /\ pc' # "cleanup") =>
          /\ command \in {">", "<", "+", "-"} =>
               vm'.ip = vm.ip + RunLength(vm.ip)
          /\ command \notin {">", "<", "+", "-", "[", "]"} =>
               vm'.ip = vm.ip + 1
          /\ command = "[" =>
               \/ vm.memory[vm.dp] # 0 /\ ~IdiomAt(vm.ip)
                    /\ vm'.ip = vm.ip + 1
               \/ vm.memory[vm.dp] # 0 /\ IdiomAt(vm.ip)
                    /\ vm'.ip = IF pc' = "hook_post" THEN vm.ip + 2
                                                     ELSE vm.ip + 3
               \/ vm.memory[vm.dp] = 0
                    /\ vm'.ip = MatchingClose(vm.ip) + 1
          /\ command = "]" =>
               vm'.ip = IF vm.memory[vm.dp] # 0 THEN MatchingOpen(vm.ip) + 1
                                                ELSE vm.ip + 1
          /\ (command # "]" \/ vm.memory[vm.dp] = 0) => vm'.ip > vm.ip]_vars
  /\ [][(pc = "hook_post" /\ pc' # "cleanup") => vm'.ip = vm.ip + 1]_vars
  /\ [][(AtDispatch /\ pc' = "cleanup") =>
          /\ vm.ip <= vm'.ip
          /\ vm'.ip < vm.ip + RunLength(vm.ip)
          /\ result_code' \in ErrorCodes]_vars
  /\ [][(~AtDispatch /\ pc # "hook_post") => vm'.ip = vm.ip]_vars
  /\ [](BracketFree =>
          /\ dispatches <= code_len
          /\ dispatches <= vm.ip \/ pc \in {"cleanup", "returned"}
          /\ StepsLeft >= 0
          /\ pc # "returned" => ENABLED Next
          /\ pc = "returned" =>
               \/ result_code >= 0 /\ vm.ip = code_len
               \/ result_code \in ErrorCodes)
  /\ [][(BracketFree /\ pc # "returned") => StepsLeft' < StepsLeft]_vars

(* The bracket-free program `+++--` ran to its normal exit in two     *)
(* dispatch steps, one per folded run, with ip at code_len.            *)
C20_Witness ==
  /\ pc = "returned"
  /\ args.code_buf = <<"+", "+", "+", "-", "-">>
  /\ BracketFree
  /\ vm.ip = code_len
  /\ result_code = 0
  /\ dispatches = 2

====
